---- MODULE Spec2Model ----
(***************************************************************************)
(* Model of godag.py: the conversion of a parsed gene ontology into a      *)
(* predecessor -> successors mapping (godag_as_graph), into an id -> name  *)
(* mapping (godag_as_idname), and the JSON document graph_as_json writes.  *)
(*                                                                         *)
(* A term record is [id, name, parents, is_obsolete]; parents holds the    *)
(* positions in obo of the parent records (references to records owned by  *)
(* the parser).  obo is the sequence obo.values() / obo.items() yields.    *)
(***************************************************************************)
EXTENDS Integers, Sequences, FiniteSets, TLC

\* ------------------------------------------------------------------ bounds
MaxTerms == 3
MaxRecords == 3

\* ------------------------------------------------------- the input space
\* Python's None, the default of roots_key and obsoletes_key.  It is equal
\* to no string.
None == "<None>"

\* annot.id of the record at position i of the ontology
GoIds == <<"GO1", "GO2", "GO3", "GO4", "GO5">>

\* annot.name: display names, not unique
Names == {"foo", "bar"}

\* identifiers the records handed to godag_as_idname may carry
RecordIds == {"GO1", "GO2"}

\* values the caller passes as roots_key / obsoletes_key: the default, and
\* a string, which is the key of a term when identifiers are the keys and
\* the key of no term when display names are
SentinelKeys == {None, "GO1"}

VARIABLES
    obo,              \* the input: sequence of term records
    use_id,           \* godag_as_graph parameters
    obsoletes_key,
    roots_key,
    use_special_key,
    pc,               \* position in the function being run
    status,           \* "running", "returned", or the exception raised
    pos,              \* number of records the running loop has consumed
    count,            \* the local count: <<>> while unbound, <<k>> once bound
    graph,            \* godag_as_graph: the defaultdict(set)
    obsoletes,
    roots,
    idname,           \* godag_as_idname: the dict
    count_doublon,
    printed,          \* label -> number printed so far
    message,          \* the "saved" line printed by godag_as_graph
    file              \* the JSON document written by graph_as_json

vars == <<obo, use_id, obsoletes_key, roots_key, use_special_key, pc, status,
          pos, count, graph, obsoletes, roots, idname, count_doublon, printed,
          message, file>>

\* ------------------------------------------------------------ dictionaries
\* the empty dict
EmptyDict == <<>>

\* d[k] = v
Put(d, k, v) == [x \in (DOMAIN d) \cup {k} |-> IF x = k THEN v ELSE d[x]]

\* reading d[k] of a defaultdict(set)
Get(d, k) == IF k \in DOMAIN d THEN d[k] ELSE {}

\* set(itertools.chain.from_iterable(d.values()))
Values(d) == UNION {d[k] : k \in DOMAIN d}

\* -------------------------------------------------------- godag_as_graph
\* def identifier(goterm)
identifier(goterm) == IF use_id THEN goterm.id ELSE goterm.name

\* for parent in annot.parents: graph[identifier(parent)].add(identifier(annot))
AddEdgesReversed(g, annot) ==
    LET preds == {identifier(obo[p]) : p \in annot.parents}
    IN  IF preds = {} THEN g
        ELSE Put(g, identifier(annot), Get(g, identifier(annot)) \cup preds)

AddEdges(g, annot) ==
    LET preds == {identifier(obo[p]) : p \in annot.parents}
    IN  [k \in (DOMAIN g) \cup preds |->
            IF k \in preds THEN Get(g, k) \cup {identifier(annot)} ELSE g[k]]

\* if len(annot.parents) == 0: if annot.is_obsolete: obsoletes.add(...)
AddObsoleteAlways(s, annot) ==
    IF annot.parents = {} THEN s \cup {identifier(annot)} ELSE s

AddObsolete(s, annot) ==
    IF annot.parents = {} /\ annot.is_obsolete
    THEN s \cup {identifier(annot)} ELSE s

\* if len(annot.parents) == 0: ... else: roots.add(...)
AddRoot(s, annot) ==
    IF annot.parents = {} /\ ~annot.is_obsolete
    THEN s \cup {identifier(annot)} ELSE s

\* graph[obsoletes_key] = frozenset(obsoletes); graph[roots_key] = frozenset(roots)
InjectRootsFirst(g) == Put(Put(g, roots_key, roots), obsoletes_key, obsoletes)

InjectSentinels(g) == Put(Put(g, obsoletes_key, obsoletes), roots_key, roots)

\* the inputs of the run, never assigned
inputs == <<obo, use_id, obsoletes_key, roots_key, use_special_key>>

\* one iteration of: for count, annot in enumerate(obo.values(), start=1)
GraphLoop ==
    /\ pc = "graph_loop"
    /\ pos < Len(obo)
    /\ LET annot == obo[pos + 1]
       IN  /\ graph' = AddEdges(graph, annot)
           /\ obsoletes' = AddObsolete(obsoletes, annot)
           /\ roots' = AddRoot(roots, annot)
    /\ pos' = pos + 1
    /\ count' = <<pos + 1>>
    /\ UNCHANGED <<inputs, pc, status, idname, count_doublon, printed,
                   message, file>>

\* the loop is exhausted; if use_special_key: the two sentinel assignments
GraphInject ==
    /\ pc = "graph_loop"
    /\ pos = Len(obo)
    /\ graph' = IF use_special_key THEN InjectSentinels(graph) ELSE graph
    /\ pc' = "graph_report"
    /\ UNCHANGED <<inputs, status, pos, count, obsoletes, roots, idname,
                   count_doublon, printed, message, file>>

\* len(set(graph.keys()) | set(itertools.chain.from_iterable(graph.values())))
TotalAnnotCount(g) == Cardinality((DOMAIN g) \cup Values(g))

\* the five summary prints; the second one reads count
GraphReport ==
    /\ pc = "graph_report"
    /\ IF count = <<>>
       THEN /\ printed' = ("parent_annotation" :> Cardinality(DOMAIN graph))
            /\ status' = "UnboundLocalError"
            /\ pc' = "graph_done"
       ELSE /\ printed' = [l \in {"parent_annotation", "obo_values",
                                  "total_annot", "obsoletes", "roots"} |->
                             CASE l = "parent_annotation" -> Cardinality(DOMAIN graph)
                               [] l = "obo_values" -> count[1]
                               [] l = "total_annot" -> TotalAnnotCount(graph)
                               [] l = "obsoletes" -> Cardinality(obsoletes)
                               [] l = "roots" -> Cardinality(roots)]
            /\ status' = status
            /\ pc' = "graph_saved"
    /\ UNCHANGED <<inputs, pos, count, graph, obsoletes, roots, idname,
                   count_doublon, message, file>>

\* the closing prints and return graph; Obsoletes_key is an undefined name
GraphSaved ==
    /\ pc = "graph_saved"
    /\ IF use_special_key
       THEN IF obsoletes_key = roots_key
            THEN message' = "Only roots saved" /\ status' = "returned"
            ELSE message' = "Roots saved" /\ status' = "NameError"
       ELSE message' = "Obsoletes and roots NOT saved" /\ status' = "returned"
    /\ pc' = "graph_done"
    /\ UNCHANGED <<inputs, pos, count, graph, obsoletes, roots, idname,
                   count_doublon, printed, file>>

\* --------------------------------------------------------- graph_as_json
\* tuple(succs): the elements of the set, each once, in the set's iteration
\* order, which the program does not control
TuplesFirstOnly(S) ==
    IF S = {} THEN {<<>>} ELSE {<<x>> : x \in S}

Tuples(S) ==
    {t \in [1..Cardinality(S) -> S] : \A i, j \in DOMAIN t : i # j => t[i] # t[j]}

\* {pred: tuple(succs) for pred, succs in graph.items()}, every possible result
RECURSIVE TupledItems(_, _)
TupledItems(g, preds) ==
    IF preds = {} THEN {EmptyDict}
    ELSE LET pred == CHOOSE k \in preds : TRUE
         IN  {Put(d, pred, t) : d \in TupledItems(g, preds \ {pred}),
                                t \in Tuples(g[pred])}

json_serializable_graph(g) == TupledItems(g, DOMAIN g)

\* json.dump writes a key that is None as the member name "null" and a str
\* key as itself
JsonKey(k) == IF k = None THEN "null" ELSE k

\* json.dump(data, fd, ...): the JSON object written, member name -> array
\* (no str key of the modelled key space is "null", so JsonKey is
\* injective on the keys of data)
JsonDump(data) ==
    [m \in {JsonKey(k) : k \in DOMAIN data} |->
        data[CHOOSE k \in DOMAIN data : JsonKey(k) = m]]

\* graph_as_json(godag_as_graph(...), filename), multiple_succs=True
GraphAsJson ==
    /\ pc = "graph_done"
    /\ status = "returned"
    /\ \E data \in json_serializable_graph(graph) : file' = JsonDump(data)
    /\ pc' = "graph_written"
    /\ UNCHANGED <<inputs, status, pos, count, graph, obsoletes, roots,
                   idname, count_doublon, printed, message>>

\* ------------------------------------------------------- godag_as_idname
\* idname[annot.id] = annot.name
StoreNameKeepFirst(d, annot) ==
    IF annot.id \in DOMAIN d THEN d ELSE Put(d, annot.id, annot.name)

StoreName(d, annot) == Put(d, annot.id, annot.name)

\* if annot.id in idname: count_doublon += 1
CountDoublon(c, d, annot) == IF annot.id \in DOMAIN d THEN c + 1 ELSE c

\* one iteration of: for count, (id, annot) in enumerate(obo.items(), start=1)
IdnameLoop ==
    /\ pc = "idname_loop"
    /\ pos < Len(obo)
    /\ LET annot == obo[pos + 1]
       IN  /\ count_doublon' = CountDoublon(count_doublon, idname, annot)
           /\ idname' = StoreName(idname, annot)
    /\ pos' = pos + 1
    /\ count' = <<pos + 1>>
    /\ UNCHANGED <<inputs, pc, status, graph, obsoletes, roots, printed,
                   message, file>>

\* the print, the assert (which reads count) and return idname
IdnameFinish ==
    /\ pc = "idname_loop"
    /\ pos = Len(obo)
    /\ printed' = [l \in {"names", "doublons"} |->
                     IF l = "names" THEN Cardinality(DOMAIN idname)
                     ELSE count_doublon]
    /\ status' = IF count = <<>> THEN "UnboundLocalError"
                 ELSE IF count[1] - count_doublon = Cardinality(DOMAIN idname)
                      THEN "returned" ELSE "AssertionError"
    /\ pc' = "idname_done"
    /\ UNCHANGED <<inputs, pos, count, graph, obsoletes, roots, idname,
                   count_doublon, message, file>>

\* ------------------------------------------------------------- the inputs
\* the parent relation of an ontology is acyclic: peel the terms whose
\* parents are all peeled already
RECURSIVE Peels(_, _)
Peels(par, left) ==
    IF left = {} THEN TRUE
    ELSE LET free == {i \in left : par[i] \cap left = {}}
         IN  free # {} /\ Peels(par, left \ free)

DagParents(n) == {par \in [1..n -> SUBSET (1..n)] : Peels(par, 1..n)}

\* the state of every local before the first statement runs
Locals ==
    /\ status = "running"
    /\ pos = 0
    /\ count = <<>>
    /\ graph = EmptyDict
    /\ obsoletes = {}
    /\ roots = {}
    /\ idname = EmptyDict
    /\ count_doublon = 0
    /\ printed = EmptyDict
    /\ message = ""
    /\ file = EmptyDict

\* is_obsolete per term: an obsolete term of the ontology has no parent
\* left (godag_as_graph reads the flag of parentless terms only)
ObsoleteFlags(n, par) ==
    {ob \in [1..n -> BOOLEAN] : \A i \in 1..n : ob[i] => par[i] = {}}

\* a call of godag_as_graph on an ontology of at most MaxTerms terms, one
\* record per identifier
Init ==
    /\ \E n \in 0..MaxTerms :
         \E par \in DagParents(n), nm \in [1..n -> Names] :
            \E ob \in ObsoleteFlags(n, par) :
               obo = [i \in 1..n |-> [id |-> GoIds[i], name |-> nm[i],
                                      parents |-> par[i],
                                      is_obsolete |-> ob[i]]]
    /\ use_id \in BOOLEAN
    /\ use_special_key \in BOOLEAN
    /\ roots_key \in SentinelKeys
    /\ obsoletes_key \in SentinelKeys
    /\ pc = "graph_loop"
    /\ Locals

Next == GraphLoop \/ GraphInject \/ GraphReport \/ GraphSaved \/ GraphAsJson

Spec == Init /\ [][Next]_vars

\* a call of godag_as_idname on at most MaxRecords records; godag_as_idname
\* reads only annot.id and annot.name
InitIdname ==
    /\ \E n \in 0..MaxRecords :
         \E ids \in [1..n -> RecordIds], nm \in [1..n -> Names] :
            obo = [i \in 1..n |-> [id |-> ids[i], name |-> nm[i],
                                   parents |-> {}, is_obsolete |-> FALSE]]
    /\ use_id = TRUE
    /\ use_special_key = FALSE
    /\ roots_key = None
    /\ obsoletes_key = None
    /\ pc = "idname_loop"
    /\ Locals

NextIdname == IdnameLoop \/ IdnameFinish

SpecIdname == InitIdname /\ [][NextIdname]_vars

\* ================================================================ claims
\* What the claims speak of, stated over the input alone.
Terms == 1..Len(obo)

\* key(T): the identifier when use_id, the display name otherwise
KeyOf(i) == IF use_id THEN obo[i].id ELSE obo[i].name

\* the keys of the terms that are the parent of at least one term
ParentKeys == {KeyOf(p) : p \in UNION {obo[i].parents : i \in Terms}}

\* the keys of the terms that have a parent whose key is k
ChildKeys(k) == {KeyOf(i) : i \in {j \in Terms :
                                    \E p \in obo[j].parents : KeyOf(p) = k}}

\* the keys of the non-obsolete / obsolete parentless terms
RootKeys == {KeyOf(i) : i \in {j \in Terms :
                 obo[j].parents = {} /\ ~obo[j].is_obsolete}}

ObsoleteKeys == {KeyOf(i) : i \in {j \in Terms :
                     obo[j].parents = {} /\ obo[j].is_obsolete}}

\* the elements of a decoded JSON array, taken as a set
Range(s) == {s[i] : i \in DOMAIN s}

GraphReturned == pc \in {"graph_done", "graph_written"} /\ status = "returned"

GraphEnded == pc \in {"graph_done", "graph_written"}

LoopOver == pc \in {"graph_report", "graph_saved", "graph_done", "graph_written"}

\* C1: in every configuration, the mapping godag_as_graph returns holds, for
\* every term T with a parent P, key(T) in the successor set at key(P).
C1_EdgeCompleteness ==
    GraphReturned =>
        \A i \in Terms : \A p \in obo[i].parents :
            /\ KeyOf(p) \in DOMAIN graph
            /\ KeyOf(i) \in graph[KeyOf(p)]

\* C2: with use_special_key and roots_key # obsoletes_key the call returns
\* a mapping with the root set at roots_key and the obsolete set at
\* obsoletes_key.
C2_DistinctSentinels ==
    (GraphEnded /\ use_special_key /\ roots_key # obsoletes_key) =>
        /\ status = "returned"
        /\ roots_key \in DOMAIN graph
        /\ graph[roots_key] = RootKeys
        /\ obsoletes_key \in DOMAIN graph
        /\ graph[obsoletes_key] = ObsoleteKeys

\* C3: with use_special_key and roots_key = obsoletes_key, the value at the
\* shared key of the mapping, from the two assignments on and so in the
\* mapping returned, is exactly the root set; the call of a non-empty
\* collection returns.
C3_CollisionKeepsRoots ==
    (LoopOver /\ use_special_key /\ roots_key = obsoletes_key) =>
        /\ roots_key \in DOMAIN graph
        /\ graph[roots_key] = RootKeys
        /\ status \in {"running", "returned"} \/ obo = <<>>
        /\ pc = "graph_done" /\ obo # <<>> => status = "returned"

\* the shared key holds the roots although there are obsolete terms, whose
\* keys are not those of the roots
C3_Witness ==
    /\ GraphReturned /\ use_special_key /\ roots_key = obsoletes_key
    /\ ObsoleteKeys # {} /\ RootKeys # {}
    /\ ObsoleteKeys \cap RootKeys = {}
    /\ graph[roots_key] = RootKeys

\* C6 as stated: in both key modes the key of a parentless term is in the
\* root set iff the term is not obsolete and in the obsolete set iff it is,
\* and the key of a term with a parent is in neither set.
C6_ExclusiveByKey ==
    LoopOver =>
        \A i \in Terms :
            IF obo[i].parents = {}
            THEN /\ (KeyOf(i) \in roots) <=> ~obo[i].is_obsolete
                 /\ (KeyOf(i) \in obsoletes) <=> obo[i].is_obsolete
            ELSE KeyOf(i) \notin roots \cup obsoletes

\* C6 amended: the root set is exactly the keys of the non-obsolete
\* parentless terms and the obsolete set exactly the keys of the obsolete
\* parentless terms; with identifier keys the two sets are disjoint, hold the
\* key of every parentless term in exactly the set its flag names, and hold
\* the key of no term that has a parent.
C6_Classification ==
    LoopOver =>
        /\ roots = RootKeys
        /\ obsoletes = ObsoleteKeys
        /\ use_id =>
            /\ roots \cap obsoletes = {}
            /\ \A i \in Terms :
                IF obo[i].parents = {}
                THEN /\ (KeyOf(i) \in roots) <=> ~obo[i].is_obsolete
                     /\ (KeyOf(i) \in obsoletes) <=> obo[i].is_obsolete
                ELSE KeyOf(i) \notin roots \cup obsoletes

\* both kinds of parentless term and a term with a parent have been
\* classified, under identifier keys
C6_Witness ==
    /\ LoopOver /\ use_id
    /\ roots # {} /\ obsoletes # {}
    /\ \E i \in Terms : obo[i].parents # {}

\* C7: with use_special_key false the mapping, once the loop is over and so
\* when it is returned, is the reference adjacency: its keys are the keys
\* of the parents, the value at k is the set of keys of the terms having a
\* parent of key k, whatever the sentinel keys are.
C7_ExactWithoutSentinels ==
    (LoopOver /\ ~use_special_key) =>
        /\ DOMAIN graph = ParentKeys
        /\ \A k \in DOMAIN graph :
            /\ graph[k] = ChildKeys(k)
            /\ graph[k] # {}
            /\ graph[k] \subseteq {KeyOf(i) : i \in Terms}

\* display names are the keys and two parents of one name have different
\* children, gathered under the one key; a sentinel key was passed
C7_Witness ==
    /\ GraphReturned /\ ~use_special_key /\ ~use_id
    /\ roots_key = "GO1"
    /\ \E p, q \in Terms :
        /\ p # q /\ obo[p].name = obo[q].name
        /\ \E i, j \in Terms :
            /\ i # j /\ obo[i].name # obo[j].name
            /\ obo[i].parents = {p} /\ obo[j].parents = {q}
            /\ graph[obo[p].name] = {obo[i].name, obo[j].name}

C9_ReportedCounts ==
    /\ "parent_annotation" \in DOMAIN printed =>
            printed["parent_annotation"] = Cardinality(ParentKeys)
    /\ "roots" \in DOMAIN printed =>
            printed["roots"] = Cardinality(RootKeys)
    /\ "obsoletes" \in DOMAIN printed =>
            printed["obsoletes"] = Cardinality(ObsoleteKeys)

\* C10: on an empty collection with use_special_key false the call returns
\* normally, reports 0 terms iterated and returns the empty mapping.
C10_EmptyInput ==
    (GraphEnded /\ obo = <<>> /\ ~use_special_key) =>
        /\ status = "returned"
        /\ "obo_values" \in DOMAIN printed
        /\ printed["obo_values"] = 0
        /\ DOMAIN graph = {}

\* ----------------------------------------------------- godag_as_idname
\* the positions of the records whose identifier an earlier record carries
Doublons == {i \in Terms : \E j \in 1..(i - 1) : obo[j].id = obo[i].id}

\* the last position carrying identifier x
LastOf(x) == CHOOSE i \in Terms :
                /\ obo[i].id = x
                /\ \A j \in Terms : obo[j].id = x => j <= i

\* C4: for every input, the empty one included, godag_as_idname passes its
\* assertion and returns, with iterated - doublons = size of the lookup.
C4_LookupInvariant ==
    pc = "idname_done" =>
        /\ status = "returned"
        /\ Len(obo) - count_doublon = Cardinality(DOMAIN idname)

\* C5: the lookup's keys are the identifiers of the records, each mapped to
\* the name of the last record carrying it, and every record whose
\* identifier an earlier record carries is counted as a doublon.
C5_LastWriteWins ==
    pc = "idname_done" =>
        /\ DOMAIN idname = {obo[i].id : i \in Terms}
        /\ \A x \in DOMAIN idname : idname[x] = obo[LastOf(x)].name
        /\ count_doublon = Cardinality(Doublons)
        /\ printed["doublons"] = Cardinality(Doublons)

\* a lookup was returned where an identifier came twice with different
\* names and another time with the same name
C5_Witness ==
    /\ pc = "idname_done" /\ status = "returned"
    /\ \E i, j \in Terms :
        /\ i < j /\ obo[i].id = obo[j].id /\ obo[i].name # obo[j].name
        /\ idname[obo[j].id] = obo[j].name
    /\ \E i, j \in Terms :
        /\ i < j /\ obo[i].id = obo[j].id /\ obo[i].name = obo[j].name
    /\ count_doublon = 2
====
